---- MODULE Spec2Model ----
(***************************************************************************)
(* BerkleyCore Loss Analysis Platform (Streamlit edition), src/app.py.     *)
(*                                                                         *)
(* The model follows one browser session.  Streamlit re-executes main()    *)
(* from the top on every user event (a new upload, a button click, a       *)
(* navigation or other widget interaction); st.session_state and the       *)
(* widgets' values (the uploader's file, the radio's page) survive from    *)
(* one script run to the next.  A script run is main(): init_session_state *)
(* then sidebar() then the selected page.                                  *)
(*                                                                         *)
(* utils.data_processing and utils.calculations are not part of src/; the  *)
(* operators that stand for them are written from spec.md.                 *)
(* Money is in whole dollars, rates in percent, integer arithmetic.        *)
(***************************************************************************)
EXTENDS Integers, Sequences, FiniteSets, TLC

VARIABLES
    session_state,  \* st.session_state: the five keys of init_session_state
    uploaded_file,  \* value of the st.file_uploader widget (kept across reruns)
    page,           \* value of the navigation st.radio (kept across reruns)
    trigger,        \* the user event the running script serves; "none" when idle
    pc,             \* position of the script run: main, sidebar, page, idle
    stages,         \* calls made by sidebar() in this run, in order
    messages,       \* st.success / st.error shown by sidebar() in this run
    view            \* what the page function of this run rendered

vars == <<session_state, uploaded_file, page, trigger, pc, stages, messages, view>>

----------------------------------------------------------------------------
(* Bounds of the model *)

\* largest number of rows of an uploaded claims table
MaxRows == 2
\* longest recommendation list given to the report (SpecReport)
MaxRecs == 6

----------------------------------------------------------------------------
(* Python values *)

None == [tag |-> "None"]
\* a key that st.session_state does not hold yet
Absent == [tag |-> "Absent"]
\* a local variable that no assignment has reached
Unassigned == "<unassigned>"
\* a Python str held in st.session_state
Str(text) == [tag |-> "str", value |-> text]
NoException == ""

Min(a, b) == IF a < b THEN a ELSE b
Max(a, b) == IF a > b THEN a ELSE b

RECURSIVE SumSeq(_)
SumSeq(s) == IF s = <<>> THEN 0 ELSE Head(s) + SumSeq(Tail(s))

Range(s) == {s[i] : i \in DOMAIN s}

----------------------------------------------------------------------------
(* The normalized claims table (spec.md section 3) *)

\* columns whose presence varies between uploads
VariedCols == {"state", "policy_year", "status", "loss_cause"}
AllCols == {"claim_id", "incurred", "paid", "reserve", "report_lag_days"} \cup VariedCols
\* columns required for Summary and Risk Score (spec.md section 6)
RequiredCols == {"incurred", "paid", "reserve", "status"}

\* the two claims of the scenario of spec.md section 8, given distinct causes
RowVals ==
    { [incurred |-> 10000, status |-> "Closed", loss_cause |-> "Fall",
       policy_year |-> "2023", state |-> "TX", report_lag_days |-> 5],
      [incurred |-> 5000, status |-> "Open", loss_cause |-> "Fire",
       policy_year |-> "2024", state |-> "CA", report_lag_days |-> 30] }

RowSeqs == UNION {[1..n -> RowVals] : n \in 0..MaxRows}
\* an uploaded table has every column, or lacks one of the varied columns, or
\* lacks all the columns the Data Table tab filters on
ColSets ==
    {AllCols} \cup {AllCols \ {c} : c \in VariedCols}
              \cup {AllCols \ {"policy_year", "status", "loss_cause"}}

\* a table: its columns and its rows; a row's value in an absent column is not read
Tables == {[tag |-> "Table", cols |-> c, rows |-> r] : c \in ColSets, r \in RowSeqs}

Formats == {"CSV"}

\* what the user can put in the uploader: a readable file holding a table, or an
\* unreadable one
Files ==
    {[tag |-> "File", ok |-> TRUE, table |-> t, format |-> f] : t \in Tables, f \in Formats}
    \cup {[tag |-> "File", ok |-> FALSE, table |-> None, format |-> "CSV"]}

----------------------------------------------------------------------------
(* utils.data_processing (external collaborators, spec.md sections 1 and 6) *)

\* load_file(uploaded_file) -> (df, format_type), or raises on an unreadable file
LoadFileRaises(file) == ~file.ok
load_file(file) == <<file.table, file.format>>

\* process_claims_data(df): delivers the normalized table; the tables of this
\* model are already in normalized form
process_claims_data(df) == df

\* generate_sample_data(n): a well-formed table with every column
generate_sample_data(n) ==
    [tag |-> "Table", cols |-> AllCols,
     rows |-> [i \in 1..Min(n, 2) |->
                 IF i = 1
                 THEN [incurred |-> 10000, status |-> "Closed", loss_cause |-> "Fall",
                       policy_year |-> "2023", state |-> "TX", report_lag_days |-> 5]
                 ELSE [incurred |-> 5000, status |-> "Open", loss_cause |-> "Fire",
                       policy_year |-> "2024", state |-> "CA", report_lag_days |-> 30]]]

----------------------------------------------------------------------------
(* utils.calculations: Summary Aggregator (spec.md section 4.1) *)

MissingRequired(df) == RequiredCols \ df.cols
\* MissingRequiredColumn, raised when a required field is absent (section 7)
SummaryRaises(df) == MissingRequired(df) # {}
MissingRequiredColumn(df) ==
    "MissingRequiredColumn: " \o (CHOOSE c \in MissingRequired(df) : TRUE)

calculate_summary(df) ==
    LET n == Len(df.rows)
        incurred == SumSeq([i \in 1..n |-> df.rows[i].incurred])
        open == Len(SelectSeq(df.rows, LAMBDA r : r.status = "Open"))
        lag == SumSeq([i \in 1..n |-> df.rows[i].report_lag_days])
    IN  [tag |-> "Summary",
         total_claims |-> n,
         total_incurred |-> incurred,
         avg_claim |-> IF n = 0 THEN 0 ELSE incurred \div n,
         open_claims |-> open,
         closed_claims |-> n - open,
         avg_lag_time |-> IF n = 0 THEN 0 ELSE lag \div n]

----------------------------------------------------------------------------
(* utils.calculations: Risk Scorer (spec.md section 4.2).  The benchmarks  *)
(* and thresholds are tunable business parameters (section 9).             *)

FactorMax == 25
SeverityBenchmark == 25000
FrequencyBenchmark == 10
LagBenchmark == 30
ModerateThreshold == 25
HighThreshold == 50
CriticalThreshold == 75

Clamp(x, lo, hi) == Max(lo, Min(hi, x))

RiskLevel(score) ==
    IF score >= CriticalThreshold THEN "Critical"
    ELSE IF score >= HighThreshold THEN "High"
    ELSE IF score >= ModerateThreshold THEN "Moderate"
    ELSE "Low"

calculate_risk_score(df, summary) ==
    LET severity == Clamp((summary.avg_claim * FactorMax) \div SeverityBenchmark, 0, FactorMax)
        frequency == Clamp((summary.total_claims * FactorMax) \div FrequencyBenchmark, 0, FactorMax)
        open_rate == IF summary.total_claims = 0 THEN 0
                     ELSE Clamp((summary.open_claims * FactorMax) \div summary.total_claims,
                                0, FactorMax)
        lag == Clamp((summary.avg_lag_time * FactorMax) \div LagBenchmark, 0, FactorMax)
        total == Clamp(severity + frequency + open_rate + lag, 0, 100)
    IN  [tag |-> "RiskScore",
         total_score |-> total,
         level |-> RiskLevel(total),
         factors |-> [severity |-> severity, frequency |-> frequency,
                      open_rate |-> open_rate, lag |-> lag]]

----------------------------------------------------------------------------
(* utils.calculations: Dimension Grouper (spec.md section 4.3) *)

\* InvalidDimension, raised when the grouping column does not exist
GroupRaises(df, dimension) == dimension \notin df.cols

\* ascending order of the dimension values
KeyOrder == <<"Burn", "CA", "Cut", "Fall", "Fire", "Strain", "Struck By", "TX", "Theft",
              "Vehicle", "2023", "2024", "Closed", "Open">>
KeyRank(k) == CHOOSE i \in DOMAIN KeyOrder : KeyOrder[i] = k

GroupStat(df, dimension, k) ==
    LET members == SelectSeq(df.rows, LAMBDA r : r[dimension] = k)
        total == SumSeq([i \in 1..Len(members) |-> members[i].incurred])
    IN  [key |-> k, count |-> Len(members), total |-> total,
         average |-> total \div Len(members)]

\* g comes before h: descending total, ties by ascending key
GroupBefore(g, h) ==
    \/ g.total > h.total
    \/ g.total = h.total /\ KeyRank(g.key) < KeyRank(h.key)

RECURSIVE SortGroups(_)
SortGroups(S) ==
    IF S = {} THEN <<>>
    ELSE LET first == CHOOSE g \in S : \A h \in S \ {g} : GroupBefore(g, h)
         IN  <<first>> \o SortGroups(S \ {first})

group_by_dimension(df, dimension) ==
    SortGroups({GroupStat(df, dimension, k) : k \in {r[dimension] : r \in Range(df.rows)}})

----------------------------------------------------------------------------
(* utils.calculations: Recommendation Generator (spec.md section 4.4) *)

TopN == 5
MinFrequency == 1
MinTotalLoss == 1000
CriticalLoss == 10000
HighLoss == 5000
HighROI == 50

\* the strategy catalog: cause -> template; unmapped causes get the generic one
StrategyTemplate(cause) ==
    IF cause = "Fall"
    THEN [strategy_name |-> "Slip and Fall Prevention Program",
          implementation_cost |-> 2000, reduction_rate |-> 40, confidence_factor |-> 80]
    ELSE [strategy_name |-> "Loss Control Review",
          implementation_cost |-> 1000, reduction_rate |-> 20, confidence_factor |-> 70]

PriorityRank(p) == IF p = "critical" THEN 0 ELSE IF p = "high" THEN 1 ELSE 2

Recommendation(g) ==
    LET t == StrategyTemplate(g.key)
        savings == (g.total * t.reduction_rate * t.confidence_factor) \div 10000
        cost == t.implementation_cost
        roi == IF cost = 0 THEN 0 ELSE ((savings - cost) * 100) \div cost
    IN  [strategy_name |-> t.strategy_name,
         priority |-> IF g.total >= CriticalLoss /\ roi >= HighROI THEN "critical"
                      ELSE IF g.total >= HighLoss \/ roi >= HighROI THEN "high"
                      ELSE "moderate",
         cause |-> g.key, frequency |-> g.count, total_loss |-> g.total,
         implementation_cost |-> cost, potential_savings |-> savings, roi |-> roi,
         payback_months |-> IF savings = 0 THEN 0 ELSE (cost * 12) \div savings,
         net_benefit |-> savings - cost]

\* r comes before s: priority rank, then ROI descending (then the cause, to be total)
RecBefore(r, s) ==
    \/ PriorityRank(r.priority) < PriorityRank(s.priority)
    \/ /\ PriorityRank(r.priority) = PriorityRank(s.priority)
       /\ \/ r.roi > s.roi
          \/ r.roi = s.roi /\ KeyRank(r.cause) < KeyRank(s.cause)

RECURSIVE SortRecs(_)
SortRecs(S) ==
    IF S = {} THEN <<>>
    ELSE LET first == CHOOSE r \in S : \A s \in S \ {r} : RecBefore(r, s)
         IN  <<first>> \o SortRecs(S \ {first})

\* total_savings and avg_roi over all the items; both 0 for no items
TotalSavings(items) == SumSeq([i \in DOMAIN items |-> items[i].potential_savings])
AvgRoi(items) ==
    IF items = <<>> THEN 0
    ELSE SumSeq([i \in DOMAIN items |-> items[i].roi]) \div Len(items)

\* returns (recs, savings, avg_roi); a table without loss_cause has no breakdown
\* by cause and gets no recommendation (section 6: feature unavailable)
generate_recommendations(df, summary) ==
    LET groups == IF "loss_cause" \in df.cols
                  THEN group_by_dimension(df, "loss_cause") ELSE <<>>
        top == SubSeq(groups, 1, Min(TopN, Len(groups)))
        candidates == {top[i] : i \in {j \in DOMAIN top :
                            /\ top[j].count >= MinFrequency
                            /\ top[j].total >= MinTotalLoss}}
        items == SortRecs({r \in {Recommendation(g) : g \in candidates} :
                            r.implementation_cost # 0})
    IN  <<items, TotalSavings(items), AvgRoi(items)>>

----------------------------------------------------------------------------
(* src/app.py: session state and main() *)

Keys == {"claims_data", "summary", "risk_score", "recommendations", "format_type"}
Pages == {"Dashboard", "Analysis", "Risk Control", "Reports"}
\* user events, each of which makes Streamlit run the script again
Triggers == {"start", "upload", "clear", "button", "widget"}
NoTrigger == "none"

SampleRows == 500

\* mutant of InitKey: the key is set whether or not the session holds it
InitKeyAlways(value) == None

\* one key of init_session_state: set to None only when the key is absent
InitKey(value) == IF value = Absent THEN None ELSE value

init_session_state(ss) == [k \in Keys |-> InitKey(ss[k])]

\* The engine's functions are pure (spec.md section 5): their results on the
\* tables a session can analyse are tabulated once.
AnalysedTables == Tables \cup {generate_sample_data(SampleRows)}
SummaryOf == [t \in AnalysedTables |-> calculate_summary(t)]
RecommendationsOf == [t \in AnalysedTables |-> generate_recommendations(t, SummaryOf[t])]

Stage(name, df, summary) == [stage |-> name, df |-> df, summary |-> summary]

Success(text) == [kind |-> "success", text |-> text]
Error(text) == [kind |-> "error", text |-> text]

\* A run of sidebar() is threaded through its statements as a record: the
\* session state so far, the calls made so far, the messages shown so far and
\* the exception in flight, if any.
StartRun(ss) == [ss |-> ss, stages |-> <<>>, messages |-> <<>>, exc |-> NoException]

Called(run, name, df, summary) == [run EXCEPT !.stages = Append(@, Stage(name, df, summary))]
Raised(run, e) == [run EXCEPT !.exc = e]
Shown(run, message) == [run EXCEPT !.messages = Append(@, message)]

\* st.session_state.claims_data = df; st.session_state.format_type = format_type
StoreTable(run, df, format_type) ==
    [run EXCEPT !.ss.claims_data = df, !.ss.format_type = Str(format_type)]

\* st.session_state.summary = calculate_summary(df)
RunSummary(run, df) ==
    IF SummaryRaises(df)
    THEN Raised(Called(run, "calculate_summary", df, None), MissingRequiredColumn(df))
    ELSE [Called(run, "calculate_summary", df, None) EXCEPT
            !.ss.summary = SummaryOf[df]]

\* st.session_state.risk_score = calculate_risk_score(df, st.session_state.summary)
RunRisk(run, df) ==
    IF run.exc # NoException THEN run
    ELSE [Called(run, "calculate_risk_score", df, run.ss.summary) EXCEPT
            !.ss.risk_score = calculate_risk_score(df, run.ss.summary)]

Unpacked(out) == [items |-> out[1], total_savings |-> out[2], avg_roi |-> out[3]]

\* recs, savings, avg_roi = generate_recommendations(df, st.session_state.summary)
\* st.session_state.recommendations = {'items': recs, ...}
RunRecommendations(run, df) ==
    IF run.exc # NoException THEN run
    ELSE [Called(run, "generate_recommendations", df, run.ss.summary) EXCEPT
            !.ss.recommendations = Unpacked(RecommendationsOf[df])]

\* mutant of Pipeline: the recommendations are generated before the risk score
PipelineRecommendationsFirst(run, df, format_type) ==
    RunRisk(RunRecommendations(RunSummary(StoreTable(run, df, format_type), df), df), df)

\* The statements both load branches run once df is ready: store the table and
\* its format, then Summary -> Risk -> Recommendations, each stored as soon as
\* it is computed.
Pipeline(run, df, format_type) ==
    RunRecommendations(RunRisk(RunSummary(StoreTable(run, df, format_type), df), df), df)

\* df, format_type = load_file(uploaded_file); df = process_claims_data(df)
Loaded(run, file) ==
    IF LoadFileRaises(file)
    THEN Raised(Called(run, "load_file", None, None), "cannot read file")
    ELSE Pipeline(Called(Called(run, "load_file", None, None),
                         "process_claims_data", load_file(file)[1], None),
                  process_claims_data(load_file(file)[1]), load_file(file)[2])

\* mutant of ExceptHandler: except Exception: pass
ExceptHandlerSilent(run) == Raised(run, NoException)

\* except Exception as e: st.error(f"Error loading file: {str(e)}")
ExceptHandler(run) == Shown(Raised(run, NoException), Error("Error loading file: " \o run.exc))

\* st.success(...) as the last statement of the try block
UploadOutcome(run, file) ==
    IF run.exc = NoException
    THEN Shown(run, Success("Loaded claims (" \o file.format \o ")"))
    ELSE ExceptHandler(run)

\* if uploaded_file: try: ... except Exception
UploadBranch(run, file) ==
    IF file = None THEN run ELSE UploadOutcome(Loaded(run, file), file)

SampleOutcome(run) ==
    IF run.exc = NoException THEN Shown(run, Success("Sample data loaded!")) ELSE run

\* if st.button("Load Sample Data"): no try block, an exception leaves sidebar()
SampleBranch(run, clicked) ==
    IF ~clicked \/ run.exc # NoException THEN run
    ELSE SampleOutcome(
            Pipeline(Called(Called(run, "generate_sample_data", None, None),
                            "process_claims_data", generate_sample_data(SampleRows), None),
                     process_claims_data(generate_sample_data(SampleRows)), "Sample Data"))

\* the Data Summary block reads summary.total_claims whenever claims_data is set
DataSummary(run) ==
    IF run.exc # NoException THEN run
    ELSE IF run.ss.claims_data # None /\ run.ss.summary = None
    THEN Raised(run, "AttributeError")
    ELSE run

\* mutant of sidebar: the sample branch is placed before the upload branch
sidebarSampleFirst(ss, file, clicked) ==
    DataSummary(UploadBranch(SampleBranch(StartRun(ss), clicked), file))

sidebar(ss, file, clicked) ==
    DataSummary(SampleBranch(UploadBranch(StartRun(ss), file), clicked))

\* the three filters of the Data Table tab, in the order they are applied
FilterOrder == <<"policy_year", "status", "loss_cause">>
FilterCols == Range(FilterOrder)

\* the view of a script run whose page function has rendered nothing (yet)
BlankView(p) ==
    [page |-> p,
     crash |-> NoException,     \* the uncaught exception that ended the run
     divisions |-> 0,           \* divisions by summary.total_claims evaluated
     zero_divisions |-> 0,      \* of which with total_claims = 0
     risk |-> None,             \* the RiskScore displayed
     group_calls |-> {},        \* dimensions group_by_dimension was called with
     state_table |-> FALSE,     \* the state breakdown table was rendered
     offered |-> {},            \* filters whose selectbox was rendered
     selected |-> [c \in FilterCols |-> Unassigned],  \* the selected_* locals
     table_shown |-> FALSE,     \* the Data Table tab rendered its table
     table |-> <<>>,            \* the rows it shows and offers for download
     report |-> None]           \* the Markdown report

----------------------------------------------------------------------------
(* src/app.py: the pages *)

\* a division by a zero total_claims raises for Python ints and yields nan for
\* numpy operands; which of the two depends on the types utils returns
ZeroDivisionOutcomes == {"ZeroDivisionError", "nan"}

\* the f-strings that divide by summary.total_claims, evaluated in order; each
\* stops the page when it raises
RECURSIVE Divide(_, _, _, _)
Divide(v, summary, times, outcome) ==
    IF times = 0 \/ v.crash # NoException THEN v
    ELSE LET zero == summary.total_claims = 0
             w == [v EXCEPT !.divisions = @ + 1,
                            !.zero_divisions = @ + (IF zero THEN 1 ELSE 0),
                            !.crash = IF zero /\ outcome = "ZeroDivisionError"
                                      THEN "ZeroDivisionError" ELSE NoException]
         IN  Divide(w, summary, times - 1, outcome)

\* delta=f"{(summary.open_claims/summary.total_claims*100):.1f}%"
DashboardDivisions(summary) == 1

risk_color == [Critical |-> "red", High |-> "orange", Moderate |-> "yellow", Low |-> "green"]

dashboard_page(ss, outcome) ==
    LET v0 == BlankView("Dashboard")
    IN  IF ss.claims_data = None THEN v0
        ELSE IF ss.summary = None THEN [v0 EXCEPT !.crash = "AttributeError"]
        ELSE LET v1 == Divide(v0, ss.summary, DashboardDivisions(ss.summary), outcome)
             IN  IF v1.crash # NoException THEN v1
                 ELSE IF ss.risk_score = None THEN [v1 EXCEPT !.crash = "AttributeError"]
                 ELSE [v1 EXCEPT !.risk = ss.risk_score]

\* mutant of StateBreakdownGuard: the breakdown is computed for every table
StateBreakdownAlways(df) == TRUE

\* if 'state' in df.columns:
StateBreakdownGuard(df) == "state" \in df.cols

\* the options of a filter's selectbox: 'All' and the column's values
Options(df, c) == {"All"} \cup {r[c] : r \in Range(df.rows)}

\* if '<c>' in df.columns: ... selected_<c> = st.selectbox(...)
Selectable(df, c) == c \in df.cols

\* mutant of FilterCondition: the test for the column is left out
FilterConditionNoColumnTest(df, c, selected) ==
    IF selected = Unassigned THEN "UnboundLocalError"
    ELSE IF selected # "All" THEN "apply" ELSE "skip"

\* if '<c>' in df.columns and selected_<c> != 'All': the right operand is read
\* only when the left one holds
FilterCondition(df, c, selected) ==
    IF c \notin df.cols THEN "skip"
    ELSE IF selected = Unassigned THEN "UnboundLocalError"
    ELSE IF selected # "All" THEN "apply" ELSE "skip"

\* the three filter statements, starting at the i-th, on the copy of df
RECURSIVE ApplyFilters(_, _, _, _)
ApplyFilters(df, selected, i, acc) ==
    IF i > Len(FilterOrder) THEN acc
    ELSE LET c == FilterOrder[i]
             cond == FilterCondition(df, c, selected[c])
         IN  IF cond = "UnboundLocalError"
             THEN [crash |-> "UnboundLocalError", rows |-> acc.rows]
             ELSE IF cond = "skip"
             THEN ApplyFilters(df, selected, i + 1, acc)
             ELSE IF c \notin df.cols
             THEN [crash |-> "KeyError", rows |-> acc.rows]
             ELSE ApplyFilters(df, selected, i + 1,
                      [crash |-> NoException,
                       rows |-> SelectSeq(acc.rows, LAMBDA r : r[c] = selected[c])])

\* the selections the user can have made in the selectboxes that are rendered
Selections(df) ==
    {sel \in [FilterCols -> {"All", Unassigned} \cup UNION {Options(df, c) : c \in FilterCols}] :
        \A c \in FilterCols :
            IF Selectable(df, c) THEN sel[c] \in Options(df, c) ELSE sel[c] = Unassigned}

analysis_page(ss, sel) ==
    LET v0 == BlankView("Analysis")
        df == ss.claims_data
    IN  IF df = None THEN v0
        ELSE LET v1 == IF ~StateBreakdownGuard(df) THEN v0
                       ELSE IF GroupRaises(df, "state")
                       THEN [v0 EXCEPT !.group_calls = {"state"}, !.crash = "InvalidDimension"]
                       ELSE [v0 EXCEPT !.group_calls = {"state"}, !.state_table = TRUE]
                 out == ApplyFilters(df, sel, 1, [crash |-> NoException, rows |-> df.rows])
             IN  IF v1.crash # NoException THEN v1
                 ELSE LET v2 == [v1 EXCEPT !.offered = {c \in FilterCols : Selectable(df, c)},
                                           !.selected = sel]
                      IN  IF out.crash # NoException THEN [v2 EXCEPT !.crash = out.crash]
                          ELSE [v2 EXCEPT !.table_shown = TRUE, !.table = out.rows]

\* mutant of risk_colors: the key of the lowest level is misspelt
risk_colors_misspelt ==
    [Critical |-> "#dc2626", High |-> "#f59e0b", Moderate |-> "#3b82f6", low |-> "#10b981"]

risk_colors == [Critical |-> "#dc2626", High |-> "#f59e0b", Moderate |-> "#3b82f6", Low |-> "#10b981"]

risk_control_page(ss) ==
    LET v0 == BlankView("Risk Control")
    IN  IF ss.claims_data = None THEN v0
        ELSE IF ss.risk_score = None THEN [v0 EXCEPT !.crash = "AttributeError"]
        ELSE IF ss.risk_score.level \notin DOMAIN risk_colors THEN [v0 EXCEPT !.crash = "KeyError"]
        ELSE IF ss.recommendations = None THEN [v0 EXCEPT !.crash = "TypeError"]
        ELSE [v0 EXCEPT !.risk = ss.risk_score]

ReportTop == 5

\* mutant of ReportSections: the list is not cut to its first five items
ReportSectionsUncut(items) ==
    [i \in 1..Len(items) |-> [number |-> i, rec |-> items[i]]]

\* for i, rec in enumerate(recs['items'][:5], 1): one numbered section each
ReportSections(items) ==
    [i \in 1..Min(ReportTop, Len(items)) |-> [number |-> i, rec |-> items[i]]]

\* len([r for r in recs['items'] if r.priority in ['critical', 'high']])
PriorityActions(items) ==
    Len(SelectSeq(items, LAMBDA r : r.priority \in {"critical", "high"}))

\* Open Claims and Closed Claims rows of the report table
ReportDivisions(summary) == 2

reports_page(ss, outcome) ==
    LET v0 == BlankView("Reports")
    IN  IF ss.claims_data = None THEN v0
        ELSE IF ss.summary = None THEN [v0 EXCEPT !.crash = "AttributeError"]
        ELSE LET v1 == Divide(v0, ss.summary, ReportDivisions(ss.summary), outcome)
             IN  IF v1.crash # NoException THEN v1
                 ELSE IF ss.risk_score = None THEN [v1 EXCEPT !.crash = "AttributeError"]
                 ELSE IF ss.recommendations = None THEN [v1 EXCEPT !.crash = "TypeError"]
                 ELSE [v1 EXCEPT
                         !.risk = ss.risk_score,
                         !.report =
                            [data_source |-> ss.format_type,
                             total_savings |-> ss.recommendations.total_savings,
                             avg_roi |-> ss.recommendations.avg_roi,
                             priority_actions |-> PriorityActions(ss.recommendations.items),
                             sections |-> ReportSections(ss.recommendations.items)]]

----------------------------------------------------------------------------
(* The session as a state machine *)

Init ==
    /\ session_state = [k \in Keys |-> Absent]
    /\ uploaded_file = None
    /\ page = "Dashboard"
    /\ trigger = "start"
    /\ pc = "main"
    /\ stages = <<>>
    /\ messages = <<>>
    /\ view = BlankView("none")

\* a user event ends the idle wait and starts the script from the top; the
\* widgets hand their new values to the script when it reaches them
Rerun(event) ==
    /\ pc = "idle"
    /\ trigger' = event
    /\ pc' = "main"
    /\ stages' = <<>>
    /\ messages' = <<>>
    /\ view' = BlankView("none")
    /\ UNCHANGED <<session_state, uploaded_file, page>>

\* the user puts a file in the uploader
Upload == pc = "idle" /\ Rerun("upload")

\* the user removes the file from the uploader
ClearUpload == uploaded_file # None /\ Rerun("clear")

\* the user clicks Load Sample Data
ClickSample == pc = "idle" /\ Rerun("button")

\* the user picks a page in the navigation radio, or touches another widget
\* (a Data Table selectbox, an expander, a download button)
WidgetInteraction == pc = "idle" /\ Rerun("widget")

InitSessionState ==
    /\ pc = "main"
    /\ session_state' = init_session_state(session_state)
    /\ pc' = "sidebar"
    /\ UNCHANGED <<uploaded_file, page, trigger, stages, messages, view>>

\* uploaded_file = st.file_uploader(...): the file now in the widget
UploaderValues ==
    IF trigger = "upload" THEN Files
    ELSE IF trigger = "clear" THEN {None}
    ELSE {uploaded_file}

Sidebar ==
    /\ pc = "sidebar"
    /\ \E file \in UploaderValues :
        LET run == sidebar(session_state, file, trigger = "button")
        IN  /\ uploaded_file' = file
            /\ session_state' = run.ss
            /\ stages' = run.stages
            /\ messages' = run.messages
            /\ IF run.exc = NoException
               THEN pc' = "page" /\ UNCHANGED <<view, trigger>>
               ELSE /\ pc' = "idle"
                    /\ trigger' = NoTrigger
                    /\ view' = [BlankView("sidebar") EXCEPT !.crash = run.exc]
    /\ UNCHANGED page

\* page = st.radio("Navigation", ...): the page now selected
RadioValues == IF trigger = "widget" THEN Pages ELSE {page}

\* main() calls the page function of the selected page, which ends the run
Render(p, v) ==
    /\ pc = "page"
    /\ p \in RadioValues
    /\ page' = p
    /\ view' = v
    /\ pc' = "idle"
    /\ trigger' = NoTrigger
    /\ UNCHANGED <<session_state, uploaded_file, stages, messages>>

DashboardPage ==
    /\ pc = "page"
    /\ \E outcome \in ZeroDivisionOutcomes :
        Render("Dashboard", dashboard_page(session_state, outcome))

AnalysisPage ==
    /\ pc = "page"
    /\ IF session_state.claims_data = None
       THEN Render("Analysis", analysis_page(session_state, [c \in FilterCols |-> Unassigned]))
       ELSE \E sel \in Selections(session_state.claims_data) :
               Render("Analysis", analysis_page(session_state, sel))

RiskControlPage ==
    /\ pc = "page"
    /\ Render("Risk Control", risk_control_page(session_state))

ReportsPage ==
    /\ pc = "page"
    /\ \E outcome \in ZeroDivisionOutcomes :
        Render("Reports", reports_page(session_state, outcome))

Next ==
    \/ Upload
    \/ ClearUpload
    \/ ClickSample
    \/ WidgetInteraction
    \/ InitSessionState
    \/ Sidebar
    \/ DashboardPage
    \/ AnalysisPage
    \/ RiskControlPage
    \/ ReportsPage

Spec == Init /\ [][Next]_vars

----------------------------------------------------------------------------
(* The report as a function of the recommendation list: a session whose     *)
(* table has up to MaxRecs loss causes, each with one of three total        *)
(* losses, analysed by a generator that keeps them all, on the Reports page *)

ReportCauses == <<"Fall", "Fire", "Burn", "Cut", "Strain", "Theft", "Vehicle", "Struck By">>
ReportTotals == {12000, 6000, 2000}

ReportInputs ==
    {SortRecs({Recommendation([key |-> ReportCauses[i], count |-> 1, total |-> f[i]]) :
                    i \in DOMAIN f}) :
        f \in UNION {[D -> ReportTotals] : D \in SUBSET (1..MaxRecs)}}

InitReport ==
    /\ \E items \in ReportInputs :
        session_state =
            [sidebar([k \in Keys |-> None], None, TRUE).ss EXCEPT
                !.recommendations = Unpacked(<<items, TotalSavings(items), AvgRoi(items)>>)]
    /\ uploaded_file = None
    /\ page = "Reports"
    /\ trigger = "button"
    /\ pc = "page"
    /\ stages = <<>>
    /\ messages = <<>>
    /\ view = BlankView("none")

SpecReport == InitReport /\ [][ReportsPage]_vars

----------------------------------------------------------------------------
(* Properties *)

SidebarReturned == pc = "page" \/ (pc = "idle" /\ view.page \in Pages)
HasTable == session_state.claims_data \notin {None, Absent}

\* C1: whenever sidebar() has returned and claims_data is a table T, the cached
\* summary, risk score and recommendations are the ones computed from T.
C1_CachedOutputsFresh ==
    (SidebarReturned /\ HasTable) =>
        LET T == session_state.claims_data
        IN  /\ ~SummaryRaises(T)
            /\ session_state.summary = calculate_summary(T)
            /\ session_state.risk_score = calculate_risk_score(T, calculate_summary(T))
            /\ session_state.recommendations =
                   Unpacked(generate_recommendations(T, calculate_summary(T)))

\* C2: with a zero-row claims table (Summary with total_claims = 0) the
\* Dashboard and Reports pages evaluate no division by total_claims and do not
\* fail with a division by zero.
C2_NoDivisionByZeroClaims ==
    ( /\ view.page \in {"Dashboard", "Reports"}
      /\ HasTable
      /\ Len(session_state.claims_data.rows) = 0
      /\ session_state.summary # None
      /\ session_state.summary.total_claims = 0 )
    => (view.divisions = 0 /\ view.crash # "ZeroDivisionError")

\* the calls of the upload branch: those before generate_sample_data
UploadStages ==
    SubSeq(stages, 1,
           IF \E i \in DOMAIN stages : stages[i].stage = "generate_sample_data"
           THEN (CHOOSE i \in DOMAIN stages : stages[i].stage = "generate_sample_data") - 1
           ELSE Len(stages))

StageOrder == <<"load_file", "process_claims_data", "calculate_summary",
                "calculate_risk_score", "generate_recommendations">>

\* the call raised: an unreadable file, or a table without a required column
StageRaised(st) ==
    \/ st.stage = "load_file" /\ LoadFileRaises(uploaded_file)
    \/ st.stage = "calculate_summary" /\ SummaryRaises(st.df)

ExceptionText(st) ==
    IF st.stage = "load_file" THEN "cannot read file" ELSE MissingRequiredColumn(st.df)

UploadSuccessShown == \E i \in DOMAIN messages : messages[i] = Success("Loaded claims (CSV)")

\* C3: a failure raised by a stage of an upload-triggered run ends that run at
\* that stage, the success message is not shown, and an error message with the
\* exception's text is shown.
C3_UploadFailureSurfaced ==
    (UploadStages # <<>>) =>
        LET up == UploadStages
            last == up[Len(up)]
        IN  /\ \A i \in 1..(Len(up) - 1) : ~StageRaised(up[i])
            /\ StageRaised(last) =>
                  /\ messages # <<>>
                  /\ messages[1] = Error("Error loading file: " \o ExceptionText(last))
                  /\ ~UploadSuccessShown
            /\ ~StageRaised(last) => (Len(up) = Len(StageOrder) /\ UploadSuccessShown)

C3_Witness ==
    /\ pc = "page"
    /\ Len(UploadStages) = 3
    /\ StageRaised(UploadStages[3])
    /\ messages[1].kind = "error"

\* C4: the Analysis page calls group_by_dimension(df, 'state') only when the
\* table has a state column; without it the state breakdown is not rendered and
\* no InvalidDimension error ends the page.
C4_StateBreakdownGuarded ==
    (view.page = "Analysis" /\ HasTable) =>
        /\ "state" \in view.group_calls => "state" \in session_state.claims_data.cols
        /\ view.crash # "InvalidDimension"
        /\ "state" \notin session_state.claims_data.cols =>
              (view.group_calls = {} /\ ~view.state_table)
        /\ "state" \in session_state.claims_data.cols => view.state_table

C4_Witness ==
    /\ view.page = "Analysis"
    /\ HasTable
    /\ "state" \notin session_state.claims_data.cols
    /\ view.table_shown
    /\ ~view.state_table

\* C5: the calls of every pipeline run follow the order ingestion ->
\* calculate_summary -> calculate_risk_score -> generate_recommendations on one
\* table, the Risk Scorer and the Recommendation Generator receive the Summary
\* computed from that table, and a page renders only after sidebar() is done.
C5_PipelineOrder ==
    /\ \A i \in DOMAIN stages :
        LET st == stages[i]
        IN  /\ st.stage = "process_claims_data" =>
                (i > 1 /\ stages[i - 1].stage \in {"load_file", "generate_sample_data"})
            /\ st.stage = "calculate_summary" =>
                /\ i > 1 /\ stages[i - 1].stage = "process_claims_data"
                /\ st.df = process_claims_data(stages[i - 1].df)
            /\ st.stage = "calculate_risk_score" =>
                /\ i > 1 /\ stages[i - 1].stage = "calculate_summary"
                /\ st.df = stages[i - 1].df
                /\ st.summary = calculate_summary(st.df)
            /\ st.stage = "generate_recommendations" =>
                /\ i > 1 /\ stages[i - 1].stage = "calculate_risk_score"
                /\ st.df = stages[i - 1].df
                /\ st.summary = calculate_summary(st.df)
            /\ st.stage \in {"load_file", "generate_sample_data"} =>
                (i = 1 \/ stages[i - 1].stage \in {"load_file", "generate_recommendations",
                                                   "calculate_summary"})
    /\ pc \in {"main", "sidebar"} => (stages = <<>> /\ view.page = "none")
    /\ view.page \in Pages => pc = "idle"

C5_Witness ==
    /\ pc = "idle"
    /\ view.page \in Pages
    /\ Len(stages) = 10
    /\ stages[5].stage = "generate_recommendations"
    /\ stages[10].stage = "generate_recommendations"
    /\ stages[5].df # stages[10].df

CountStage(name) == Cardinality({i \in DOMAIN stages : stages[i].stage = name})

\* C6: one pipeline run per uploaded dataset and per Load Sample Data click; a
\* rerun with no new upload and no click performs no pipeline run; every run
\* that starts completes its three stages before a page shows results.
C6_OneRunPerEvent ==
    (pc = "page") =>
        /\ trigger \in {"start", "widget", "clear"} => stages = <<>>
        /\ trigger = "upload" => CountStage("calculate_summary") <= 1
        /\ trigger = "button" => CountStage("calculate_summary") = 1
        /\ CountStage("generate_recommendations") = CountStage("calculate_summary")

\* C7: rendering a page and waiting for the user leave st.session_state as it
\* is; init_session_state sets the absent keys to None and keeps every value
\* already there; sidebar() writes only through its two load branches.
C7_CacheFrame ==
    [][ /\ pc \in {"page", "idle"} => session_state' = session_state
        /\ pc = "main" =>
              \A k \in Keys : session_state'[k] =
                  (IF session_state[k] = Absent THEN None ELSE session_state[k])
        /\ (pc = "sidebar" /\ uploaded_file' = None /\ trigger # "button") =>
              session_state' = session_state ]_vars

\* a filter of the Data Table tab has dropped rows and the session's table
\* still has them all
C7_Witness ==
    /\ view.page = "Analysis"
    /\ view.table_shown
    /\ HasTable
    /\ Len(view.table) < Len(session_state.claims_data.rows)

Levels == {"Low", "Moderate", "High", "Critical"}
LevelRank(l) == IF l = "Low" THEN 0 ELSE IF l = "Moderate" THEN 1 ELSE IF l = "High" THEN 2 ELSE 3

\* every score of 0..100 has a level, the levels rise with the score and all
\* four are used
BandsContiguous ==
    /\ \A x \in 0..100 : RiskLevel(x) \in Levels
    /\ \A x \in 0..99 : LevelRank(RiskLevel(x)) <= LevelRank(RiskLevel(x + 1))
    /\ {RiskLevel(x) : x \in 0..100} = Levels

WellFormedRisk(r) ==
    /\ r.total_score = r.factors.severity + r.factors.frequency
                         + r.factors.open_rate + r.factors.lag
    /\ \A f \in DOMAIN r.factors : r.factors[f] \in 0..25
    /\ DOMAIN r.factors = {"severity", "frequency", "open_rate", "lag"}
    /\ r.total_score \in 0..100
    /\ r.level \in Levels
    /\ r.level = RiskLevel(r.total_score)
    /\ r.level \in DOMAIN risk_colors
    /\ r.level \in DOMAIN risk_color

C9_ReportTopFive ==
    (view.page = "Reports" /\ view.report # None) =>
        LET items == session_state.recommendations.items
            n == Len(items)
            report == view.report
        IN  /\ Len(report.sections) = Min(n, 5)
            /\ \A i \in 1..Min(n, 5) :
                  report.sections[i] = [number |-> i, rec |-> items[i]]
            /\ report.priority_actions =
                  Cardinality({i \in 1..n : items[i].priority \in {"critical", "high"}})
            /\ report.total_savings = TotalSavings(items)
            /\ report.avg_roi = AvgRoi(items)

C9_Witness ==
    /\ view.page = "Reports"
    /\ view.report # None
    /\ Len(session_state.recommendations.items) = 6
    /\ Len(view.report.sections) = 5
    /\ view.report.priority_actions = 6

\* the rows of T that match every filter whose column exists and whose
\* selection is not 'All'
MatchingRows(T, selected) ==
    SelectSeq(T.rows,
              LAMBDA r : \A c \in FilterCols :
                  (c \in T.cols /\ selected[c] # "All") => r[c] = selected[c])

\* C10: in the Data Table tab a filter is offered, and its selection read, only
\* when its column exists; the table shown is the rows of claims_data matching
\* every filter whose column exists and whose selection is not 'All'.
C10_FiltersFollowColumns ==
    (view.page = "Analysis" /\ HasTable) =>
        LET T == session_state.claims_data
        IN  /\ view.crash = NoException
            /\ view.table_shown
            /\ view.offered = FilterCols \cap T.cols
            /\ \A c \in FilterCols \ T.cols : view.selected[c] = Unassigned
            /\ \A c \in FilterCols \cap T.cols : view.selected[c] \in Options(T, c)
            /\ view.table = MatchingRows(T, view.selected)

C10_Witness ==
    /\ view.page = "Analysis"
    /\ HasTable
    /\ view.table_shown
    /\ "policy_year" \notin session_state.claims_data.cols
    /\ view.selected["loss_cause"] = "Fire"
    /\ Len(view.table) = 1
    /\ Len(session_state.claims_data.rows) = 2

NoneDereference == {"AttributeError", "TypeError"}

\* C11: in every reachable state with claims_data not None, summary, risk_score
\* and recommendations are not None, and neither the Data Summary block of the
\* sidebar nor a page ends its run by reading an attribute or key of None.
C11_NoNoneDereferenced ==
    /\ HasTable =>
          /\ session_state.summary # None
          /\ session_state.risk_score # None
          /\ session_state.recommendations # None
    /\ view.crash \notin NoneDereference

SampleFormat == Str("Sample Data")
SampleTable == generate_sample_data(SampleRows)
StageIndex(st, name) == {i \in DOMAIN st : st[i].stage = name}
\* a load branch got as far as its two assignments to the session: they follow
\* process_claims_data directly
WroteTable(st) == StageIndex(st, "process_claims_data") # {}
SampleWrote(st) == StageIndex(st, "generate_sample_data") # {}
Known(value) == IF value = Absent THEN None ELSE value

\* C12: format_type is None exactly when claims_data is None; a script run
\* that writes claims_data leaves format_type 'Sample Data' exactly when the
\* last write was the sample branch's, and a run that writes nothing keeps
\* both; a run with a file in the uploader and a click on Load Sample Data
\* runs the upload branch first and the sample branch second and ends with the
\* sample table, its results and format_type 'Sample Data'.
C12_FormatNamesSource ==
    [][ /\ (session_state'.format_type = None) <=> (session_state'.claims_data = None)
        /\ IF pc = "sidebar" /\ WroteTable(stages')
           THEN (session_state'.format_type = SampleFormat) <=> SampleWrote(stages')
           ELSE /\ session_state'.format_type = Known(session_state.format_type)
                /\ session_state'.claims_data = Known(session_state.claims_data)
        /\ (pc = "sidebar" /\ uploaded_file' # None /\ trigger = "button") =>
              /\ StageIndex(stages', "load_file") = {1}
              /\ \A i \in StageIndex(stages', "generate_sample_data") : i > 1
              /\ SampleWrote(stages')
              /\ session_state'.claims_data = SampleTable
              /\ session_state'.format_type = SampleFormat
              /\ session_state'.summary = calculate_summary(SampleTable)
              /\ session_state'.risk_score =
                     calculate_risk_score(SampleTable, calculate_summary(SampleTable))
              /\ session_state'.recommendations =
                     Unpacked(generate_recommendations(SampleTable,
                                                       calculate_summary(SampleTable))) ]_vars

\* a run in which an uploaded table other than the sample was loaded with
\* success and the sample data then replaced it
C12_Witness ==
    /\ pc = "page"
    /\ uploaded_file # None
    /\ uploaded_file.ok
    /\ uploaded_file.table # SampleTable
    /\ Len(messages) = 2
    /\ messages[1].kind = "success"
    /\ Cardinality(StageIndex(stages, "calculate_summary")) = 2
    /\ SampleWrote(stages)
    /\ session_state.claims_data = SampleTable
    /\ session_state.format_type = SampleFormat

====
